---- MODULE Spec2Model ----
(***************************************************************************)
(* Model of find_free_blocks (src/analyze_cal.py), the free-block finder   *)
(* of the calendar analysis script.  One call is modelled: the formatted   *)
(* events are parsed, sorted and grouped by date, then every date is       *)
(* scanned with a cursor (current_time) and the free blocks are appended   *)
(* to free_blocks.                                                         *)
(*                                                                         *)
(* A time of day (datetime.time) is a record [hour, minute].  A formatted  *)
(* time ("9:00 AM") is a record [h, m, ap]; a formatted duration           *)
(* ("1h 30min") is the sequence of its "<n><unit>" parts; a date part      *)
(* ("Jun 7") is [mon, day] and a date key ("Jun 07", strftime "%b %d") is  *)
(* [mon, d1, d2] with the two digits of the zero-padded day.               *)
(***************************************************************************)
EXTENDS Integers, Sequences, FiniteSets, TLC

(* ----- bounds of the checked inputs ----- *)
MaxEvents == 2

StartTimes == {30, 375, 540, 570, 720, 1065, 1410}

Durations == {0, 15, 30, 60, 900}

MainDate == [mon |-> 6, day |-> 17]

OtherDate == [mon |-> 6, day |-> 7]

OtherStartTimes == {540, 1410}

OtherDurations == {0, 60}

\* Feb 29 exists in 2028 only
LeapDate == [mon |-> 2, day |-> 29]

LeapStartTimes == {540}

LeapDurations == {60}

DateParts == {MainDate, OtherDate, LeapDate}

\* the calendar year of the wall clock at the time of the call
Years == {2027, 2028}

\* durations the caller never produces (it takes the absolute value), but
\* that the function accepts
NegativeStartTimes == {30, 540}

NegativeDurations == {-60, -30}

VARIABLES events, current_year, pc, error, event_times, events_by_date,
          date_idx, ev_idx, current_time, free_blocks, result

finderVars == <<events, current_year, pc, error, event_times, events_by_date,
                date_idx, ev_idx, current_time, free_blocks, result>>

\* two calls of find_free_blocks running at the same time: the list object
\* each caller passes, what each caller has got back, and the locals of the
\* invocations
VARIABLES call_events, callers, frames

concVars == <<call_events, callers, frames>>

\* the API process: the wall clock in seconds, the two in-memory TTL caches
\* and the value the last cache lookup returned
VARIABLES now, calendar_cache, horizon_cache, lookup

cacheVars == <<now, calendar_cache, horizon_cache, lookup>>

\* the API process: the last HTTP response, the Google Calendar client and
\* the three lists of excluded titles
VARIABLES response, calendar_service, excluded

apiVars == <<response, calendar_service, excluded>>

\* the horizon collection and the todos collection of the database, and the
\* number of documents ever inserted into each
VARIABLES horizons, horizon_seq, todos, todo_seq

horizonVars == <<horizons, horizon_seq>>

todoVars == <<todos, todo_seq>>

\* the weekly_meal_plans collection of the database
VARIABLES weekly_meal_plans

mealVars == <<weekly_meal_plans>>

\* the global DatabaseConfig instance, the cached _collection of each
\* repository, the outcome of every connect() call so far and the outcome of
\* the last call of get_collection, ensure_indexes or a collection property
VARIABLES db_config, repositories, connect_log, db_call

dbVars == <<db_config, repositories, connect_log, db_call>>

vars == <<finderVars, concVars, cacheVars, apiVars, horizonVars, todoVars,
          mealVars, dbVars>>

\* no concurrent calls are running
ConcIdle ==
    /\ call_events = <<>>
    /\ callers = <<>>
    /\ frames = <<>>

\* Python's None, and a value that is not None
None == [some |-> FALSE, value |-> <<>>]

Some(v) == [some |-> TRUE, value |-> v]

\* the process has just started: both caches are empty dicts
CachesIdle ==
    /\ now = 0
    /\ calendar_cache = <<>>
    /\ horizon_cache = <<>>
    /\ lookup = [fn |-> "", key |-> <<>>, at |-> 0, returned |-> None]

\* titles are strings of characters
TitleBlock ==
    <<"B", "l", "o", "c", "k">>

TitleRefrain ==
    <<"R", "e", "f", "r", "a", "i", "n", " ", "f", "r", "o", "m", " ", "s",
    "c", "h", "e", "d", "u", "l", "i", "n", "g", " ", "|", " ", "A", "s",
    "k", " ", "b", "e", "f", "o", "r", "e", " ", "s", "c", "h", "e", "d",
    "u", "l", "i", "n", "g">>

TitleBuffer ==
    <<"B", "u", "f", "f", "e", "r", " ", "/", " ", "D", "o", " ", "n", "o",
    "t", " ", "s", "c", "h", "e", "d", "u", "l", "e">>

TitleBlocked ==
    <<"B", "l", "o", "c", "k", "e", "d">>

TitleTryNot ==
    <<"T", "r", "y", " ", "a", "n", "d", " ", "n", "o", "t", " ", "s", "c",
    "h", "e", "d", "u", "l", "e", " ", "i", "f", " ", "p", "o", "s", "s",
    "i", "b", "l", "e">>

TitleCommute ==
    <<"C", "o", "m", "m", "u", "t", "e">>

TitleOOO ==
    <<"O", "O", "O">>

\* the three lists as they are when the module is imported
ExcludedAtImport ==
    [exact |-> <<TitleBlock, TitleRefrain, TitleBuffer, TitleBlocked, TitleTryNot>>,
     partial |-> <<>>,
     case_insensitive_partial |-> <<TitleCommute, TitleOOO>>]

NoResponse == [status |-> 0, source |-> "", key |-> <<>>, at |-> 0, body |-> <<>>]

\* no request has been answered; the calendar client is authenticated
ApiIdle ==
    /\ response = NoResponse
    /\ calendar_service = "service"
    /\ excluded = ExcludedAtImport

\* both collections are empty
HorizonsIdle == horizons = {} /\ horizon_seq = 0

TodosIdle == todos = {} /\ todo_seq = 0

MealPlansIdle == weekly_meal_plans = {}

\* the repositories of the application
Repositories ==
    {"todos", "horizon", "bookmarked_events", "ingredients", "meals",
     "weekly_meal_plans"}

NoDbCall == [fn |-> "", name |-> "", raised |-> "", returned |-> "None"]

\* DatabaseConfig.__init__: client and database are None (client 0 is None,
\* client k is the MongoClient made by the k-th connect() call)
NotConnected == [client |-> 0, database |-> "None"]

\* the application serves requests: lifespan's connect() has succeeded and
\* every repository has looked up its collection
DatabaseUp ==
    /\ db_config = [client |-> 1, database |-> "db"]
    /\ repositories = [r \in Repositories |-> r]
    /\ connect_log = <<"ok">>
    /\ db_call = NoDbCall

\* no call of find_free_blocks is running
FinderIdle ==
    /\ events = <<>>
    /\ current_year = CHOOSE year \in Years : TRUE
    /\ pc = "call"
    /\ error = ""
    /\ event_times = <<>>
    /\ events_by_date = <<>>
    /\ date_idx = 1
    /\ ev_idx = 1
    /\ current_time = [hour |-> 6, minute |-> 0]
    /\ free_blocks = <<>>
    /\ result = <<>>

\* the variables each component leaves alone
notFinder == <<concVars, cacheVars, apiVars, horizonVars, todoVars,
    mealVars, dbVars>>

notConc == <<finderVars, cacheVars, apiVars, horizonVars, todoVars,
    mealVars, dbVars>>

notCaches == <<finderVars, concVars, apiVars, horizonVars, todoVars,
    mealVars, dbVars>>

notEvents == <<finderVars, concVars, horizon_cache, horizonVars, todoVars,
    mealVars, dbVars>>

notHorizons == <<finderVars, concVars, calendar_cache, lookup, calendar_service,
                 excluded, todoVars,
    mealVars, dbVars>>

notEdit == <<finderVars, concVars, cacheVars, calendar_service, excluded,
             todoVars,
    mealVars, dbVars>>

notTodos == <<finderVars, concVars, cacheVars, calendar_service, excluded,
              horizonVars,
    mealVars, dbVars>>

NotFinderIdle == ConcIdle /\ CachesIdle /\ ApiIdle /\ HorizonsIdle /\ TodosIdle /\ MealPlansIdle /\ DatabaseUp

(* ----- datetime.time ----- *)
Time(hour, minute) == [hour |-> hour, minute |-> minute]

Minutes(t) == t.hour * 60 + t.minute

TimeLess(a, b) ==
    \/ a.hour < b.hour
    \/ a.hour = b.hour /\ a.minute < b.minute

\* t.strftime('%I:%M %p').lstrip('0').replace(' 0', ' ')
Strftime12(t) ==
    [h  |-> IF t.hour % 12 = 0 THEN 12 ELSE t.hour % 12,
     m  |-> t.minute,
     ap |-> IF t.hour < 12 THEN "AM" ELSE "PM"]

(* ----- the caller's formatting of an event (analyze_calendar) ----- *)
\* the formatted local start time of an event that starts m minutes after
\* midnight
get_start_end_times(m) == Strftime12(Time(m \div 60, m % 60))

\* one entry of formatted_events: 'Date' is "<date> (<time>)",
\* 'Duration' is "<n> min"
FormattedEvent(date_part, start, duration) ==
    [Date     |-> [date |-> date_part, time |-> get_start_end_times(start)],
     Duration |-> [n |-> duration, unit |-> "min"]]

\* every start and duration on the main date, a few events on the other date
EventUniverse ==
    { FormattedEvent(MainDate, s, n) : s \in StartTimes, n \in Durations }
    \cup { FormattedEvent(OtherDate, s, n) : s \in OtherStartTimes, n \in OtherDurations }
    \cup { FormattedEvent(LeapDate, s, n) : s \in LeapStartTimes, n \in LeapDurations }

\* events with a negative duration, as a direct caller can pass them
NegativeEvents ==
    { FormattedEvent(MainDate, s, n) : s \in NegativeStartTimes, n \in NegativeDurations }

RECURSIVE SeqsUpTo(_, _)
SeqsUpTo(S, n) ==
    IF n = 0 THEN { <<>> }
    ELSE LET shorter == SeqsUpTo(S, n - 1)
         IN  shorter \cup { Append(q, x) : q \in { r \in shorter : Len(r) = n - 1 }, x \in S }

(* ----- parsing of one formatted event ----- *)
\* hour, minute of "h:MM AM|PM" in 24-hour form
ParseStart(time_str) ==
    LET hour == IF time_str.ap = "PM" /\ time_str.h # 12 THEN time_str.h + 12
                ELSE IF time_str.ap = "AM" /\ time_str.h = 12 THEN 0
                ELSE time_str.h
    IN  Time(hour, time_str.m)

IsLeapYear(year) == year % 4 = 0 /\ (year % 100 # 0 \/ year % 400 = 0)

DaysInMonth(mon, year) ==
    IF mon = 2 THEN (IF IsLeapYear(year) THEN 29 ELSE 28)
    ELSE IF mon \in {4, 6, 9, 11} THEN 30 ELSE 31

\* strptime raises ValueError for a day the month does not have in that year
ParseDateRaises(date_part, year) == date_part.day > DaysInMonth(date_part.mon, year)

\* strptime(f"{date_part} {current_year}", "%b %d %Y")
ParseDate(date_part, year) == <<year, date_part.mon, date_part.day>>

ParseEvent(event, year) ==
    [date     |-> ParseDate(event.Date.date, year),
     start    |-> ParseStart(event.Date.time),
     duration |-> event.Duration.n]

ParseEvents(evs, year) == [i \in 1..Len(evs) |-> ParseEvent(evs[i], year)]

\* the parsing loop stops with ValueError at the first date it cannot parse
ParseEventsRaises(evs, year) ==
    \E i \in 1..Len(evs) : ParseDateRaises(evs[i].Date.date, year)

(* ----- sort by (date, start), stable ----- *)
DateLess(a, b) ==
    \/ a[1] < b[1]
    \/ a[1] = b[1] /\ a[2] < b[2]
    \/ a[1] = b[1] /\ a[2] = b[2] /\ a[3] < b[3]

KeyLess(x, y) ==
    \/ DateLess(x.date, y.date)
    \/ x.date = y.date /\ TimeLess(x.start, y.start)

\* x goes behind every element whose key is not greater than its own
RECURSIVE InsertSorted(_, _)
InsertSorted(x, s) ==
    IF s = <<>> THEN <<x>>
    ELSE IF KeyLess(x, Head(s)) THEN <<x>> \o s
    ELSE <<Head(s)>> \o InsertSorted(x, Tail(s))

RECURSIVE SortEvents(_)
SortEvents(s) ==
    IF s = <<>> THEN <<>>
    ELSE InsertSorted(s[Len(s)], SortEvents(SubSeq(s, 1, Len(s) - 1)))

(* ----- group by date key ----- *)
\* variant of DateKey: the month number in place of the day ("%b %m")
DateKey_monthForDay(date) ==
    [mon |-> date[2], d1 |-> date[2] \div 10, d2 |-> date[2] % 10]

\* event['date'].strftime("%b %d")
DateKey(date) == [mon |-> date[2], d1 |-> date[3] \div 10, d2 |-> date[3] % 10]

RECURSIVE GroupByDate(_, _)
GroupByDate(s, groups) ==
    IF s = <<>> THEN groups
    ELSE LET key == DateKey(Head(s).date)
             at  == { i \in 1..Len(groups) : groups[i].date_key = key }
         IN  IF at = {}
             THEN GroupByDate(Tail(s),
                     Append(groups, [date_key |-> key, date_events |-> <<Head(s)>>]))
             ELSE LET i == CHOOSE j \in at : TRUE
                  IN  GroupByDate(Tail(s),
                         [groups EXCEPT ![i].date_events = Append(@, Head(s))])

(* ----- the scan of one date ----- *)
DayStart == Time(6, 0)

DayEnd == Time(18, 0)

MinBlockMinutes == 30

\* hours/minutes rendering of a block length: "<h>h <m>min" without the
\* parts that are zero
FormatDuration(duration_minutes) ==
    LET hours   == duration_minutes \div 60
        minutes == duration_minutes % 60
    IN  (IF hours > 0 THEN << [n |-> hours, unit |-> "h"] >> ELSE <<>>)
        \o (IF minutes > 0 THEN << [n |-> minutes, unit |-> "min"] >> ELSE <<>>)

FreeBlock(date_key, start_time, duration_minutes) ==
    [date     |-> date_key,
     duration |-> FormatDuration(duration_minutes),
     time     |-> Strftime12(start_time)]

\* variant of BlockBeforeFirst: no minimum length
BlockBeforeFirst_noThreshold(date_key, cur, first_event) ==
    IF TimeLess(cur, first_event.start)
    THEN << FreeBlock(date_key, cur, Minutes(first_event.start) - Minutes(cur)) >>
    ELSE <<>>

\* the block before the first event of the date
BlockBeforeFirst(date_key, cur, first_event) ==
    IF TimeLess(cur, first_event.start)
    THEN LET duration_minutes == Minutes(first_event.start) - Minutes(cur)
         IN  IF duration_minutes >= MinBlockMinutes
             THEN << FreeBlock(date_key, cur, duration_minutes) >>
             ELSE <<>>
    ELSE <<>>

\* current_time after the first event: its end, capped at 23:59
AfterFirstEvent(first_event) ==
    LET end_minutes == Minutes(first_event.start) + first_event.duration
        end_hour    == end_minutes \div 60
        end_minute  == end_minutes % 60
    IN  IF end_hour >= 24 THEN Time(23, 59) ELSE Time(end_hour, end_minute)

\* datetime.time(end_hour, end_minute) raises ValueError for a negative hour
AfterFirstEventRaises(first_event) ==
    (Minutes(first_event.start) + first_event.duration) \div 60 < 0

\* the block between current_time and one of the remaining events
BlockBetween(date_key, cur, event) ==
    IF TimeLess(cur, event.start)
    THEN LET duration_minutes == Minutes(event.start) - Minutes(cur)
         IN  IF duration_minutes >= MinBlockMinutes
             THEN << FreeBlock(date_key, cur, duration_minutes) >>
             ELSE <<>>
    ELSE <<>>

\* variant of AfterEvent: the duration of the event is not added
AfterEvent_startOnly(event) == event.start

\* current_time after one of the remaining events: its end, capped at 23:59
AfterEvent(event) ==
    LET end_minutes == Minutes(event.start) + event.duration
        end_hour    == end_minutes \div 60
        end_minute  == end_minutes % 60
    IN  IF end_hour >= 24 THEN Time(23, 59) ELSE Time(end_hour, end_minute)

\* datetime.time(end_hour, end_minute) raises ValueError for a negative hour
AfterEventRaises(event) ==
    (Minutes(event.start) + event.duration) \div 60 < 0

\* the block after the last event of the date, until 6 PM
BlockAfterLast(date_key, cur) ==
    IF TimeLess(cur, DayEnd)
    THEN LET duration_minutes == Minutes(DayEnd) - Minutes(cur)
         IN  IF duration_minutes >= MinBlockMinutes
             THEN << FreeBlock(date_key, cur, duration_minutes) >>
             ELSE <<>>
    ELSE <<>>

\* variant of NoEventsResult: one block that spans the whole window
NoEventsResult_fullWindow ==
    << FreeBlock([mon |-> 6, d1 |-> 1, d2 |-> 7], DayStart,
                 Minutes(DayEnd) - Minutes(DayStart)) >>

\* `if not events: return []`
NoEventsResult == <<>>

(* ----- the whole call as a function of its input ----- *)
RECURSIVE ScanRest(_, _, _, _)
ScanRest(date_key, rest, cur, blocks) ==
    IF rest = <<>> THEN blocks \o BlockAfterLast(date_key, cur)
    ELSE ScanRest(date_key, Tail(rest), AfterEvent(Head(rest)),
                  blocks \o BlockBetween(date_key, cur, Head(rest)))

ScanDate(group) ==
    IF group.date_events # <<>>
    THEN ScanRest(group.date_key, Tail(group.date_events),
                  AfterFirstEvent(Head(group.date_events)),
                  BlockBeforeFirst(group.date_key, DayStart, Head(group.date_events)))
    ELSE BlockAfterLast(group.date_key, DayStart)

RECURSIVE ScanDates(_)
ScanDates(groups) ==
    IF groups = <<>> THEN <<>> ELSE ScanDate(Head(groups)) \o ScanDates(Tail(groups))

FindFreeBlocks(evs, year) ==
    IF evs = <<>> THEN NoEventsResult
    ELSE ScanDates(GroupByDate(SortEvents(ParseEvents(evs, year)), <<>>))

\* the call raises: a date that does not parse, or an event whose end is
\* before midnight of its day
CallRaises(evs, year) ==
    /\ evs # <<>>
    /\ \/ ParseEventsRaises(evs, year)
       \/ \E i \in 1..Len(evs) :
              LET event == ParseEvent(evs[i], year)
              IN  AfterFirstEventRaises(event) \/ AfterEventRaises(event)

\* what a call returns or raises
CallOutcome(evs, year) ==
    IF CallRaises(evs, year)
    THEN [status |-> "raised", error |-> "ValueError", blocks |-> <<>>]
    ELSE [status |-> "done", error |-> "", blocks |-> FindFreeBlocks(evs, year)]

(* ----- the call, step by step ----- *)
FinderStart ==
    /\ current_year \in Years
    /\ pc = "call"
    /\ error = ""
    /\ event_times = <<>>
    /\ events_by_date = <<>>
    /\ date_idx = 1
    /\ ev_idx = 1
    /\ current_time = DayStart
    /\ free_blocks = <<>>
    /\ result = <<>>

Init ==
    /\ events \in SeqsUpTo(EventUniverse, MaxEvents)
    /\ FinderStart
    /\ NotFinderIdle

\* the same call on the events the caller can format and on events with a
\* negative duration
InitSigned ==
    /\ events \in SeqsUpTo(EventUniverse \cup NegativeEvents, MaxEvents)
    /\ FinderStart
    /\ NotFinderIdle

\* the call with no events returns at once
ReturnEmpty ==
    /\ pc = "call"
    /\ events = <<>>
    /\ result' = NoEventsResult
    /\ pc' = "done"
    /\ UNCHANGED <<events, current_year, error, event_times, events_by_date,
                   date_idx, ev_idx, current_time, free_blocks>>
    /\ UNCHANGED notFinder

\* parse, sort and group the events
Prepare ==
    /\ pc = "call"
    /\ events # <<>>
    /\ IF ParseEventsRaises(events, current_year)
       THEN /\ pc' = "raised"
            /\ error' = "ValueError"
            /\ UNCHANGED <<event_times, events_by_date, free_blocks, date_idx>>
       ELSE /\ event_times' = SortEvents(ParseEvents(events, current_year))
            /\ events_by_date' = GroupByDate(event_times', <<>>)
            /\ free_blocks' = <<>>
            /\ date_idx' = 1
            /\ pc' = "date"
            /\ error' = error
    /\ UNCHANGED <<events, current_year, ev_idx, current_time, result>>
    /\ UNCHANGED notFinder

\* start of one date: the cursor is set to 6 AM, the block before the first
\* event is reported and the cursor moves to the end of the first event
FirstEvent ==
    /\ pc = "date"
    /\ date_idx <= Len(events_by_date)
    /\ LET date_key    == events_by_date[date_idx].date_key
           date_events == events_by_date[date_idx].date_events
       IN  IF date_events # <<>>
           THEN /\ free_blocks' = free_blocks
                       \o BlockBeforeFirst(date_key, DayStart, date_events[1])
                /\ IF AfterFirstEventRaises(date_events[1])
                   THEN /\ pc' = "raised"
                        /\ error' = "ValueError"
                        /\ current_time' = DayStart
                   ELSE /\ current_time' = AfterFirstEvent(date_events[1])
                        /\ pc' = "rest"
                        /\ error' = error
           ELSE /\ free_blocks' = free_blocks
                /\ current_time' = DayStart
                /\ pc' = "rest"
                /\ error' = error
    /\ ev_idx' = 2
    /\ UNCHANGED <<events, current_year, event_times, events_by_date, date_idx, result>>
    /\ UNCHANGED notFinder

\* one of the remaining events of the date
NextEvent ==
    /\ pc = "rest"
    /\ ev_idx <= Len(events_by_date[date_idx].date_events)
    /\ LET date_key == events_by_date[date_idx].date_key
           event    == events_by_date[date_idx].date_events[ev_idx]
       IN  /\ free_blocks' = free_blocks \o BlockBetween(date_key, current_time, event)
           /\ IF AfterEventRaises(event)
              THEN /\ pc' = "raised"
                   /\ error' = "ValueError"
                   /\ current_time' = current_time
              ELSE /\ current_time' = AfterEvent(event)
                   /\ pc' = pc
                   /\ error' = error
    /\ ev_idx' = ev_idx + 1
    /\ UNCHANGED <<events, current_year, event_times, events_by_date, date_idx, result>>
    /\ UNCHANGED notFinder

\* after the last event of the date
AfterLast ==
    /\ pc = "rest"
    /\ ev_idx > Len(events_by_date[date_idx].date_events)
    /\ free_blocks' = free_blocks
            \o BlockAfterLast(events_by_date[date_idx].date_key, current_time)
    /\ date_idx' = date_idx + 1
    /\ pc' = "date"
    /\ UNCHANGED <<events, current_year, error, event_times, events_by_date,
                   ev_idx, current_time, result>>
    /\ UNCHANGED notFinder

\* `return free_blocks`
Return ==
    /\ pc = "date"
    /\ date_idx > Len(events_by_date)
    /\ result' = free_blocks
    /\ pc' = "done"
    /\ UNCHANGED <<events, current_year, error, event_times, events_by_date,
                   date_idx, ev_idx, current_time, free_blocks>>
    /\ UNCHANGED notFinder

Next ==
    \/ ReturnEmpty
    \/ Prepare
    \/ FirstEvent
    \/ NextEvent
    \/ AfterLast
    \/ Return

Spec == Init /\ [][Next]_vars

SpecSigned == InitSigned /\ [][Next]_vars

\* the step-by-step call returns or raises what the function does
StepsAgreeWithFunction ==
    pc \in {"done", "raised"} =>
        CallOutcome(events, current_year) =
            [status |-> pc, error |-> error, blocks |-> result]

(***************************************************************************)
(* Reading the input and the output back: minutes since midnight of a      *)
(* formatted time, minutes of a formatted duration, the day of a block.    *)
(***************************************************************************)
ClockMinutes(time_str) ==
    (time_str.h % 12) * 60 + time_str.m + (IF time_str.ap = "PM" THEN 720 ELSE 0)

RECURSIVE PartsMinutes(_)
PartsMinutes(parts) ==
    IF parts = <<>> THEN 0
    ELSE (IF Head(parts).unit = "h" THEN 60 * Head(parts).n ELSE Head(parts).n)
         + PartsMinutes(Tail(parts))

BlockStart(b) == ClockMinutes(b.time)

BlockLength(b) == PartsMinutes(b.duration)

BlockEnd(b) == BlockStart(b) + BlockLength(b)

EventStart(e) == ClockMinutes(e.Date.time)

EventEnd(e) == EventStart(e) + e.Duration.n

\* the block b is reported for the date d of the input
BlockOnDate(b, d) == b.date.mon = d.mon /\ b.date.d1 * 10 + b.date.d2 = d.day

\* the intervals [a, b) and [c, d) have a minute in common
Intersect(a, b, c, d) == a < b /\ c < d /\ a < d /\ c < b

WindowStart == 360

WindowEnd == 1080

\* the indexes of the input events of date d
EventsOn(d) == { j \in DOMAIN events : events[j].Date.date = d }

\* the blocks reported so far for date d, as <<start, length>>, in order
RECURSIVE StartsAndLengths(_, _)
StartsAndLengths(blocks, d) ==
    IF blocks = <<>> THEN <<>>
    ELSE (IF BlockOnDate(Head(blocks), d)
          THEN << <<BlockStart(Head(blocks)), BlockLength(Head(blocks))>> >>
          ELSE <<>>)
         \o StartsAndLengths(Tail(blocks), d)

(***************************************************************************)
(* C1.  No reported block intersects the occupied interval                 *)
(* [start, start + duration) of an input event of the same day, also when  *)
(* the events of the day overlap each other.                               *)
(***************************************************************************)
C1_BlocksAvoidEvents ==
    \A i \in DOMAIN free_blocks : \A j \in DOMAIN events :
        BlockOnDate(free_blocks[i], events[j].Date.date)
        => ~Intersect(BlockStart(free_blocks[i]), BlockEnd(free_blocks[i]),
                      EventStart(events[j]), EventEnd(events[j]))

(***************************************************************************)
(* C2.  Every reported block starts at or after 06:00 and ends at or       *)
(* before 18:00 of its day (so it is at most 720 minutes long), also when  *)
(* events start before 06:00 or end after 18:00.                           *)
(***************************************************************************)
C2_BlocksInsideWindow ==
    \A i \in DOMAIN free_blocks :
        /\ BlockStart(free_blocks[i]) >= WindowStart
        /\ BlockEnd(free_blocks[i]) <= WindowEnd
        /\ BlockLength(free_blocks[i]) <= WindowEnd - WindowStart

(***************************************************************************)
(* C3.  For the events of one day that are pairwise non-overlapping and    *)
(* lie inside 06:00-18:00, the blocks returned for that day are exactly    *)
(* the maximal event-free intervals of the window that are at least 30     *)
(* minutes long, in ascending order.                                       *)
(***************************************************************************)
\* minute m of date d lies in the occupied interval of an event
Occupied(d, m) ==
    \E j \in EventsOn(d) : EventStart(events[j]) <= m /\ m < EventEnd(events[j])

\* [a, b) is a maximal event-free interval of the window on date d
MaximalFree(d, a, b) ==
    /\ a < b
    /\ \A j \in EventsOn(d) :
          ~Intersect(a, b, EventStart(events[j]), EventEnd(events[j]))
    /\ a = WindowStart \/ Occupied(d, a - 1)
    /\ b = WindowEnd \/ Occupied(d, b)

MaximalFreeBlocks(d) ==
    LET from  == {WindowStart} \cup { EventEnd(events[j]) : j \in EventsOn(d) }
        until == {WindowEnd} \cup { EventStart(events[j]) : j \in EventsOn(d) }
    IN  { <<a, b - a>> : <<a, b>> \in
            { ab \in from \X until :
                MaximalFree(d, ab[1], ab[2]) /\ ab[2] - ab[1] >= 30 } }

RECURSIVE Ascending(_)
Ascending(S) ==
    IF S = {} THEN <<>>
    ELSE LET first == CHOOSE x \in S : \A y \in S : x[1] <= y[1]
         IN  <<first>> \o Ascending(S \ {first})

InsideWindow(e) == EventStart(e) >= WindowStart /\ EventEnd(e) <= WindowEnd

\* date d has events, all inside the window and pairwise non-overlapping
Tidy(d) ==
    /\ EventsOn(d) # {}
    /\ \A j \in EventsOn(d) : InsideWindow(events[j])
    /\ \A j, k \in EventsOn(d) :
          j # k => ~Intersect(EventStart(events[j]), EventEnd(events[j]),
                              EventStart(events[k]), EventEnd(events[k]))

\* the claim as stated
C3_ExactlyMaximalFreeBlocks ==
    pc = "done" =>
        \A d \in DateParts :
            Tidy(d) => StartsAndLengths(result, d) = Ascending(MaximalFreeBlocks(d))

\* C3 as amended: the same for days whose events all have a positive
\* duration (an event of zero minutes still splits the free interval it
\* falls into)
C3_ExactlyMaximalFreeBlocksPositive ==
    pc = "done" =>
        \A d \in DateParts :
            (Tidy(d) /\ \A j \in EventsOn(d) : events[j].Duration.n > 0)
            => StartsAndLengths(result, d) = Ascending(MaximalFreeBlocks(d))

\* one event at 09:00 for 60 minutes gives (06:00, 3h) and (10:00, 8h)
C3_Witness ==
    /\ pc = "done"
    /\ events = << FormattedEvent(MainDate, 540, 60) >>
    /\ result = << [date     |-> [mon |-> 6, d1 |-> 1, d2 |-> 7],
                    duration |-> << [n |-> 3, unit |-> "h"] >>,
                    time     |-> [h |-> 6, m |-> 0, ap |-> "AM"]],
                   [date     |-> [mon |-> 6, d1 |-> 1, d2 |-> 7],
                    duration |-> << [n |-> 8, unit |-> "h"] >>,
                    time     |-> [h |-> 10, m |-> 0, ap |-> "AM"]] >>

(***************************************************************************)
(* C4.  Every reported block is at least 30 minutes long; no block of zero *)
(* or negative length is reported.                                         *)
(***************************************************************************)
C4_BlocksAtLeastMinGap ==
    \A i \in DOMAIN free_blocks : BlockLength(free_blocks[i]) >= 30

\* a day whose first event starts at 06:15: the 15 minutes before it are
\* not reported, a later block of the day is
C4_Witness ==
    /\ pc = "done"
    /\ \E d \in DateParts :
          /\ EventsOn(d) # {}
          /\ \A j \in EventsOn(d) : EventStart(events[j]) >= 375
          /\ \E j \in EventsOn(d) : EventStart(events[j]) = 375
          /\ \A i \in DOMAIN result :
                BlockOnDate(result[i], d) => BlockStart(result[i]) # WindowStart
          /\ \E i \in DOMAIN result : BlockOnDate(result[i], d)

(***************************************************************************)
(* C5.  The call on any permutation of the event list returns the same set *)
(* of blocks, also when two events of a day start at the same time with    *)
(* different durations.                                                    *)
(***************************************************************************)
Range(q) == { q[i] : i \in DOMAIN q }

Permuted(q) ==
    { [i \in DOMAIN q |-> q[f[i]]] : f \in Permutations(DOMAIN q) }

C5_OrderIndependent ==
    pc = "done" =>
        \A P \in Permuted(events) :
            Range(FindFreeBlocks(P, current_year)) = Range(result)

(***************************************************************************)
(* C6.  The call with an empty event list returns the empty sequence.      *)
(***************************************************************************)
C6_EmptyInputEmptyResult ==
    (pc = "done" /\ events = <<>>) => result = <<>>

C6_Witness == pc = "done" /\ events = <<>> /\ Len(result) = 0

(***************************************************************************)
(* C7.  With no events (an empty input, or a day that has no event) the    *)
(* call returns exactly one block, which spans the whole 06:00-18:00       *)
(* window.                                                                 *)
(***************************************************************************)
FullWindow == << <<WindowStart, WindowEnd - WindowStart>> >>

\* the claim as stated
C7_NoEventsFullWindow ==
    pc = "done" =>
        /\ events = <<>> =>
              /\ Len(result) = 1
              /\ \E d \in DateParts : StartsAndLengths(result, d) = FullWindow
        /\ events # <<>> =>
              \A d \in DateParts :
                  EventsOn(d) = {} => StartsAndLengths(result, d) = FullWindow

\* C7 as amended: with no events no block is reported; every reported
\* block lies on the day of an input event, so an empty input gives no
\* block and a day without events gets none
C7_NoEventsNoBlock ==
    \A i \in DOMAIN result :
        \E j \in DOMAIN events : BlockOnDate(result[i], events[j].Date.date)

\* a returned result with blocks for one date and none for the date that
\* has no event
C7_Witness ==
    /\ pc = "done"
    /\ \E d \in DateParts :
          /\ EventsOn(d) = {}
          /\ StartsAndLengths(result, d) = <<>>
    /\ events = <<>> \/ result # <<>>

(***************************************************************************)
(* C8.  If an event's start + duration goes past the end of the day        *)
(* (24:00), the cursor becomes 23:59 of the same day, and no block is      *)
(* reported after that event on that day.                                  *)
(***************************************************************************)
PastMidnight(e) == EventEnd(e) > 1440

\* the event the scan has processed last
LastScanned == events_by_date[date_idx].date_events[ev_idx - 1]

\* blocks reported after an event start at or after the start of that
\* event: the events are scanned by ascending start and every block starts
\* where an earlier event of the scan ended
C8_ClampAndNoLaterBlock ==
    /\ (pc = "rest" /\ Minutes(LastScanned.start) + LastScanned.duration > 1440)
           => current_time = Time(23, 59)
    /\ \A j \in DOMAIN events : PastMidnight(events[j]) =>
           \A i \in DOMAIN free_blocks :
               BlockOnDate(free_blocks[i], events[j].Date.date)
               => BlockStart(free_blocks[i]) < EventStart(events[j])

(***************************************************************************)
(* C9.  For two back-to-back events of a day (the second starts exactly    *)
(* when the first ends) no block is reported between them: the only        *)
(* blocks of the day are the one before the first event and the one after  *)
(* the second.                                                             *)
(***************************************************************************)
C9_BackToBackNoBlockBetween ==
    pc = "done" =>
        \A d \in DateParts : \A j, k \in EventsOn(d) :
            (j # k /\ EventsOn(d) = {j, k}
                 /\ EventStart(events[k]) = EventEnd(events[j]))
            => \A i \in DOMAIN result :
                   BlockOnDate(result[i], d) =>
                       \/ /\ BlockStart(result[i]) = WindowStart
                          /\ BlockEnd(result[i]) = EventStart(events[j])
                       \/ /\ BlockStart(result[i]) = EventEnd(events[k])
                          /\ BlockEnd(result[i]) = WindowEnd


(***************************************************************************)
(* C11.  An event with a negative duration is rejected with InvalidEvent:  *)
(* the call does not go past its entry with such an event, appends no      *)
(* block, and the only way it ends is by raising InvalidEvent.             *)
(***************************************************************************)
HasNegativeDuration == \E i \in DOMAIN events : events[i].Duration.n < 0

C11_NegativeDurationRejected ==
    HasNegativeDuration =>
        /\ pc \in {"call", "raised"}
        /\ pc = "raised" => error = "InvalidEvent"
        /\ free_blocks = <<>>
        /\ result = <<>>

(***************************************************************************)
(* C12.  A call on events with non-negative durations never raises.        *)
(***************************************************************************)
C12_NeverRaises ==
    ~HasNegativeDuration => pc # "raised"

(***************************************************************************)
(* C13.  The outcome of a call (the blocks it returns, or the error it     *)
(* raises) is the same in every calendar year the call can be made in.     *)
(***************************************************************************)
C13_SameOutcomeInEveryYear ==
    pc \in {"done", "raised"} =>
        \A year \in Years :
            CallOutcome(events, year) =
                [status |-> pc, error |-> error, blocks |-> result]


(* ----- two calls at the same time ----- *)
NumCalls == 2

Calls == 1..NumCalls

\* the events the two callers build their lists from
ConcStartTimes == {540, 570}

ConcDurations == {60}

ConcUniverse ==
    { FormattedEvent(MainDate, s, n) : s \in ConcStartTimes, n \in ConcDurations }
    \cup { FormattedEvent(LeapDate, s, n) : s \in LeapStartTimes, n \in LeapDurations }

\* a variant in which the locals are one set of module-level names
FrameOf_shared(c) == 1

\* every invocation has its own locals
FrameOf(c) == c

\* the locals at the entry of the function
NewFrame ==
    [event_times |-> <<>>, events_by_date |-> <<>>, date_idx |-> 1, ev_idx |-> 1,
     current_time |-> DayStart, free_blocks |-> <<>>]

NewCaller == [pc |-> "call", error |-> "", result |-> <<>>]

InitConc ==
    /\ call_events \in [Calls -> SeqsUpTo(ConcUniverse, MaxEvents)]
    /\ callers = [c \in Calls |-> NewCaller]
    /\ frames = [c \in Calls |-> NewFrame]
    /\ events = <<>>
    /\ FinderStart
    /\ CachesIdle /\ ApiIdle /\ HorizonsIdle /\ TodosIdle /\ MealPlansIdle /\ DatabaseUp

\* the events of the date the scan of frame f is at
FrameInDate(f) == f.date_idx <= Len(f.events_by_date)

CallReturnEmpty(c) ==
    /\ callers[c].pc = "call"
    /\ call_events[c] = <<>>
    /\ callers' = [callers EXCEPT ![c] = [@ EXCEPT !.pc = "done", !.result = NoEventsResult]]
    /\ UNCHANGED <<call_events, frames, notConc>>

CallPrepare(c) ==
    /\ callers[c].pc = "call"
    /\ call_events[c] # <<>>
    /\ IF ParseEventsRaises(call_events[c], current_year)
       THEN /\ callers' = [callers EXCEPT ![c] = [@ EXCEPT !.pc = "raised", !.error = "ValueError"]]
            /\ frames' = frames
       ELSE /\ callers' = [callers EXCEPT ![c] = [@ EXCEPT !.pc = "date"]]
            /\ LET sorted == SortEvents(ParseEvents(call_events[c], current_year))
               IN  frames' = [frames EXCEPT ![FrameOf(c)] =
                       [@ EXCEPT !.event_times = sorted,
                                 !.events_by_date = GroupByDate(sorted, <<>>),
                                 !.free_blocks = <<>>,
                                 !.date_idx = 1]]
    /\ UNCHANGED <<call_events, notConc>>

CallFirstEvent(c) ==
    /\ callers[c].pc = "date"
    /\ FrameInDate(frames[FrameOf(c)])
    /\ LET f           == frames[FrameOf(c)]
           date_key    == f.events_by_date[f.date_idx].date_key
           date_events == f.events_by_date[f.date_idx].date_events
       IN  IF date_events # <<>>
           THEN LET blocks == f.free_blocks
                                 \o BlockBeforeFirst(date_key, DayStart, date_events[1])
                IN  IF AfterFirstEventRaises(date_events[1])
                    THEN /\ callers' = [callers EXCEPT ![c] =
                                [@ EXCEPT !.pc = "raised", !.error = "ValueError"]]
                         /\ frames' = [frames EXCEPT ![FrameOf(c)] =
                                [@ EXCEPT !.free_blocks = blocks,
                                          !.current_time = DayStart,
                                          !.ev_idx = 2]]
                    ELSE /\ callers' = [callers EXCEPT ![c] = [@ EXCEPT !.pc = "rest"]]
                         /\ frames' = [frames EXCEPT ![FrameOf(c)] =
                                [@ EXCEPT !.free_blocks = blocks,
                                          !.current_time = AfterFirstEvent(date_events[1]),
                                          !.ev_idx = 2]]
           ELSE /\ callers' = [callers EXCEPT ![c] = [@ EXCEPT !.pc = "rest"]]
                /\ frames' = [frames EXCEPT ![FrameOf(c)] =
                       [@ EXCEPT !.current_time = DayStart, !.ev_idx = 2]]
    /\ UNCHANGED <<call_events, notConc>>

CallNextEvent(c) ==
    /\ callers[c].pc = "rest"
    /\ FrameInDate(frames[FrameOf(c)])
    /\ frames[FrameOf(c)].ev_idx
           <= Len(frames[FrameOf(c)].events_by_date[frames[FrameOf(c)].date_idx].date_events)
    /\ LET f        == frames[FrameOf(c)]
           date_key == f.events_by_date[f.date_idx].date_key
           event    == f.events_by_date[f.date_idx].date_events[f.ev_idx]
           blocks   == f.free_blocks \o BlockBetween(date_key, f.current_time, event)
       IN  IF AfterEventRaises(event)
           THEN /\ callers' = [callers EXCEPT ![c] =
                       [@ EXCEPT !.pc = "raised", !.error = "ValueError"]]
                /\ frames' = [frames EXCEPT ![FrameOf(c)] =
                       [@ EXCEPT !.free_blocks = blocks, !.ev_idx = @ + 1]]
           ELSE /\ callers' = callers
                /\ frames' = [frames EXCEPT ![FrameOf(c)] =
                       [@ EXCEPT !.free_blocks = blocks,
                                 !.current_time = AfterEvent(event),
                                 !.ev_idx = @ + 1]]
    /\ UNCHANGED <<call_events, notConc>>

CallAfterLast(c) ==
    /\ callers[c].pc = "rest"
    /\ FrameInDate(frames[FrameOf(c)])
    /\ frames[FrameOf(c)].ev_idx
           > Len(frames[FrameOf(c)].events_by_date[frames[FrameOf(c)].date_idx].date_events)
    /\ LET f        == frames[FrameOf(c)]
           date_key == f.events_by_date[f.date_idx].date_key
       IN  frames' = [frames EXCEPT ![FrameOf(c)] =
               [@ EXCEPT !.free_blocks = @ \o BlockAfterLast(date_key, f.current_time),
                         !.date_idx = @ + 1]]
    /\ callers' = [callers EXCEPT ![c] = [@ EXCEPT !.pc = "date"]]
    /\ UNCHANGED <<call_events, notConc>>

CallReturn(c) ==
    /\ callers[c].pc = "date"
    /\ ~FrameInDate(frames[FrameOf(c)])
    /\ callers' = [callers EXCEPT ![c] =
           [@ EXCEPT !.pc = "done", !.result = frames[FrameOf(c)].free_blocks]]
    /\ UNCHANGED <<call_events, frames, notConc>>

NextConc ==
    \E c \in Calls :
        \/ CallReturnEmpty(c)
        \/ CallPrepare(c)
        \/ CallFirstEvent(c)
        \/ CallNextEvent(c)
        \/ CallAfterLast(c)
        \/ CallReturn(c)

SpecConc == InitConc /\ [][NextConc]_vars

(***************************************************************************)
(* C14.  Under every interleaving of two calls, each call returns (or      *)
(* raises) what the call on its own list returns (or raises) when run      *)
(* alone, and no step changes a caller's list.                             *)
(***************************************************************************)
C14_ConcurrentCallsAsAlone ==
    /\ [](\A c \in DOMAIN callers :
              callers[c].pc \in {"done", "raised"} =>
                  CallOutcome(call_events[c], current_year) =
                      [status |-> callers[c].pc, error |-> callers[c].error,
                       blocks |-> callers[c].result])
    /\ [][call_events' = call_events]_vars

\* both calls have returned blocks, of different lists, after steps of the
\* one call were taken between the steps of the other
C14_Witness ==
    /\ DOMAIN callers = Calls
    /\ \A c \in Calls : callers[c].pc = "done" /\ callers[c].result # <<>>
    /\ call_events[1] # call_events[2]
    /\ callers[1].result # callers[2].result


(* ----- the TTL caches ----- *)
CACHE_TTL_SECONDS == 60

HORIZON_CACHE_TTL_SECONDS == 300

\* the clock is read at these distances, up to MaxNow seconds after the start
TickSeconds == {60, 240}

MaxNow == 420

\* start and end of the requested range, as strings of characters
RangeStarts == {<<"1">>}

RangeEnds == {<<"2">>, <<"3">>}

\* the lists of events and of horizons that get cached
EventLists == {<<"standup">>}

HorizonLists == {<<>>, <<"trip">>}

\* Python's None where a string is expected
NoDate == <<"None">>

AllHorizonsKey == <<"a", "l", "l", "_", "h", "o", "r", "i", "z", "o", "n", "s">>

HorizonDates == {NoDate}

\* hashlib.md5(f"{start}:{end}".encode()).hexdigest(); the digest is taken
\* as the string it is computed from
get_cache_key(start, end) == start \o <<":">> \o end

get_horizon_cache_key(horizon_date) ==
    IF horizon_date \in {NoDate, <<>>} THEN AllHorizonsKey ELSE horizon_date

\* the dict without the entry of key k
DelKey(cache, k) == [j \in DOMAIN cache \ {k} |-> cache[j]]

\* the dict with the entry of key k set
SetKey(cache, k, entry) ==
    [j \in DOMAIN cache \cup {k} |-> IF j = k THEN entry ELSE cache[j]]

\* variant: an entry is still served at the second of its expiry
EventsFresh_atExpiry(t, expiry) == t <= expiry

\* datetime.datetime.now().timestamp() < expiry
EventsFresh(t, expiry) == t < expiry

HorizonsFresh(t, expiry) == t < expiry

\* what get_cached_events returns, and the dict it leaves
CachedEvents(cache, key, t) ==
    IF key \in DOMAIN cache
    THEN IF EventsFresh(t, cache[key].expiry)
         THEN [returned |-> Some(cache[key].data), cache |-> cache]
         ELSE [returned |-> None, cache |-> DelKey(cache, key)]
    ELSE [returned |-> None, cache |-> cache]

CachedHorizons(cache, key, t) ==
    IF key \in DOMAIN cache
    THEN IF HorizonsFresh(t, cache[key].expiry)
         THEN [returned |-> Some(cache[key].data), cache |-> cache]
         ELSE [returned |-> None, cache |-> DelKey(cache, key)]
    ELSE [returned |-> None, cache |-> cache]

\* time passes
Tick ==
    /\ \E d \in TickSeconds :
          /\ now + d <= MaxNow
          /\ now' = now + d
    /\ UNCHANGED <<calendar_cache, horizon_cache, lookup, notCaches>>

get_cached_events ==
    /\ \E start \in RangeStarts, end \in RangeEnds :
          LET cache_key == get_cache_key(start, end)
              found     == CachedEvents(calendar_cache, cache_key, now)
          IN  /\ calendar_cache' = found.cache
              /\ lookup' = [fn |-> "get_cached_events", key |-> cache_key,
                            at |-> now, returned |-> found.returned]
    /\ UNCHANGED <<now, horizon_cache, notCaches>>

cache_events ==
    /\ \E start \in RangeStarts, end \in RangeEnds, evs \in EventLists :
          calendar_cache' = SetKey(calendar_cache, get_cache_key(start, end),
                                   [data |-> evs, expiry |-> now + CACHE_TTL_SECONDS])
    /\ UNCHANGED <<now, horizon_cache, lookup, notCaches>>

get_cached_horizons ==
    /\ \E horizon_date \in HorizonDates :
          LET cache_key == get_horizon_cache_key(horizon_date)
              found     == CachedHorizons(horizon_cache, cache_key, now)
          IN  /\ horizon_cache' = found.cache
              /\ lookup' = [fn |-> "get_cached_horizons", key |-> cache_key,
                            at |-> now, returned |-> found.returned]
    /\ UNCHANGED <<now, calendar_cache, notCaches>>

cache_horizons ==
    /\ \E horizon_date \in HorizonDates, cached_list \in HorizonLists :
          horizon_cache' = SetKey(horizon_cache, get_horizon_cache_key(horizon_date),
                                  [data |-> cached_list,
                                   expiry |-> now + HORIZON_CACHE_TTL_SECONDS])
    /\ UNCHANGED <<now, calendar_cache, lookup, notCaches>>

invalidate_horizon_cache ==
    /\ horizon_cache' = <<>>
    /\ UNCHANGED <<now, calendar_cache, lookup, notCaches>>

InitCaches ==
    /\ CachesIdle
    /\ FinderIdle /\ ConcIdle /\ ApiIdle /\ HorizonsIdle /\ TodosIdle /\ MealPlansIdle /\ DatabaseUp

NextCaches ==
    \/ Tick
    \/ get_cached_events
    \/ cache_events
    \/ get_cached_horizons
    \/ cache_horizons
    \/ invalidate_horizon_cache

SpecCaches == InitCaches /\ [][NextCaches]_vars

(***************************************************************************)
(* C15.  A lookup returns the cached list only when the time of the lookup *)
(* is strictly before the expiry of the entry; a lookup at or after the    *)
(* expiry returns None and leaves the dict without that entry; a lookup of *)
(* a key with no entry returns None.  The expiry of an entry is the time   *)
(* it was cached at plus 60 seconds (events) or 300 seconds (horizons).    *)
(***************************************************************************)
LookupAsClaimed(fn, cache, cache_after) ==
    (lookup' # lookup /\ lookup'.fn = fn) =>
        LET k == lookup'.key
        IN  IF k \in DOMAIN cache /\ lookup'.at < cache[k].expiry
            THEN lookup'.returned = Some(cache[k].data) /\ cache_after = cache
            ELSE /\ lookup'.returned = None
                 /\ k \notin DOMAIN cache_after
                 /\ \A j \in DOMAIN cache \ {k} :
                        j \in DOMAIN cache_after /\ cache_after[j] = cache[j]

StoredAsClaimed(cache, cache_after, ttl) ==
    \A k \in DOMAIN cache_after :
        (k \notin DOMAIN cache \/ cache_after[k] # cache[k]) =>
            cache_after[k].expiry = now + ttl

C15_NeverServesExpired ==
    [][ /\ LookupAsClaimed("get_cached_events", calendar_cache, calendar_cache')
        /\ LookupAsClaimed("get_cached_horizons", horizon_cache, horizon_cache')
        /\ StoredAsClaimed(calendar_cache, calendar_cache', 60)
        /\ StoredAsClaimed(horizon_cache, horizon_cache', 300) ]_vars

\* events cached at second 300 were looked up before second 360 and served
C15_Witness ==
    /\ lookup.fn = "get_cached_events"
    /\ lookup.returned = Some(<<"standup">>)
    /\ lookup.at = 300
    /\ lookup.key \in DOMAIN calendar_cache
    /\ calendar_cache[lookup.key].expiry = 360


(* ----- GET /get-events and the excluded titles ----- *)
UpperCase ==
    <<"A", "B", "C", "D", "E", "F", "G", "H", "I", "J", "K", "L", "M",
      "N", "O", "P", "Q", "R", "S", "T", "U", "V", "W", "X", "Y", "Z">>

LowerCase ==
    <<"a", "b", "c", "d", "e", "f", "g", "h", "i", "j", "k", "l", "m",
      "n", "o", "p", "q", "r", "s", "t", "u", "v", "w", "x", "y", "z">>

LowerChar(c) ==
    IF \E i \in DOMAIN UpperCase : UpperCase[i] = c
    THEN LowerCase[CHOOSE i \in DOMAIN UpperCase : UpperCase[i] = c]
    ELSE c

\* str.lower()
Lower(str) == [i \in DOMAIN str |-> LowerChar(str[i])]

\* partial in event_title
Contains(str, partial) ==
    \E i \in 0..(Len(str) - Len(partial)) :
        SubSeq(str, i + 1, i + Len(partial)) = partial

\* title in a list of titles
InList(title, list) == \E i \in DOMAIN list : list[i] = title

should_exclude_event(event_title, lists) ==
    IF event_title = <<>> THEN FALSE
    ELSE \/ InList(event_title, lists.exact)
         \/ \E i \in DOMAIN lists.partial : Contains(event_title, lists.partial[i])
         \/ \E i \in DOMAIN lists.case_insensitive_partial :
               Contains(Lower(event_title), Lower(lists.case_insensitive_partial[i]))

\* the titles of the events the calendar holds in the requested range
TitleSync == <<"S", "y", "n", "c">>

TitleBlocks == <<"B", "l", "o", "c", "k", "s">>

TitleOooToday == <<"o", "o", "o", " ", "t", "o", "d", "a", "y">>

CalendarItems == <<TitleSync, TitleBlock, TitleBlocks, TitleOooToday>>

\* the titles and match types add_excluded_title is called with
AddedTitles == {TitleBlock}

MatchTypes == {"exact", "partial", "case_insensitive_partial", "regex"}

\* the list with one more title, unless it is in the list already
AppendNew(list, title) == IF InList(title, list) THEN list ELSE Append(list, title)

add_excluded_title ==
    /\ \E title \in AddedTitles, match_type \in MatchTypes :
          excluded' =
              IF match_type = "exact"
              THEN [excluded EXCEPT !.exact = AppendNew(@, title)]
              ELSE IF match_type = "partial"
              THEN [excluded EXCEPT !.partial = AppendNew(@, title)]
              ELSE IF match_type = "case_insensitive_partial"
              THEN [excluded EXCEPT !.case_insensitive_partial = AppendNew(@, title)]
              ELSE excluded
    /\ UNCHANGED <<now, calendar_cache, lookup, response, calendar_service, notEvents>>

\* GET /excluded-titles
get_excluded_titles ==
    /\ response' = [status |-> 200, source |-> "excluded-titles", key |-> <<>>, at |-> now,
                    body |-> excluded.exact \o excluded.partial
                                 \o excluded.case_insensitive_partial]
    /\ UNCHANGED <<now, calendar_cache, lookup, calendar_service, excluded, notEvents>>

\* parse_date_string: the day a YYYY-MM-DD string stands for
DayNumber(date_str) ==
    IF date_str = <<"1">> THEN 1 ELSE IF date_str = <<"2">> THEN 2 ELSE 3

\* variant: process_event keeps every event
FilterExcluded_keepAll(items, lists) == items

RECURSIVE FilterExcluded(_, _)
\* the events process_event keeps, in their order
FilterExcluded(items, lists) ==
    IF items = <<>> THEN <<>>
    ELSE (IF should_exclude_event(Head(items), lists) THEN <<>> ELSE <<Head(items)>>)
         \o FilterExcluded(Tail(items), lists)

\* whether events().list(...).execute() succeeds
ApiOutcomes == {"ok", "error"}

get_events ==
    /\ \E start \in RangeStarts, end \in RangeEnds, api \in ApiOutcomes :
          LET cache_key == get_cache_key(start, end)
              found     == CachedEvents(calendar_cache, cache_key, now)
              answer(status, source, body) ==
                  [status |-> status, source |-> source, key |-> cache_key,
                   at |-> now, body |-> body]
          IN  IF calendar_service = "None"
              THEN /\ response' = answer(500, "error", <<>>)
                   /\ UNCHANGED <<calendar_cache, lookup>>
              ELSE /\ lookup' = [fn |-> "get_cached_events", key |-> cache_key,
                                 at |-> now, returned |-> found.returned]
                   /\ IF found.returned # None
                      THEN /\ response' = answer(200, "cache", found.returned.value)
                           /\ calendar_cache' = found.cache
                      ELSE IF DayNumber(start) > DayNumber(end)
                      THEN /\ response' = answer(400, "error", <<>>)
                           /\ calendar_cache' = found.cache
                      ELSE IF api = "error"
                      THEN /\ response' = answer(500, "error", <<>>)
                           /\ calendar_cache' = found.cache
                      ELSE LET formatted_events == FilterExcluded(CalendarItems, excluded)
                           IN  /\ calendar_cache' =
                                      SetKey(found.cache, cache_key,
                                             [data |-> formatted_events,
                                              expiry |-> now + CACHE_TTL_SECONDS])
                               /\ response' = answer(200, "fresh", formatted_events)
    /\ UNCHANGED <<now, calendar_service, excluded, notEvents>>

InitEvents ==
    /\ CachesIdle
    /\ response = NoResponse
    /\ calendar_service \in {"None", "service"}
    /\ excluded = ExcludedAtImport
    /\ FinderIdle /\ ConcIdle /\ HorizonsIdle /\ TodosIdle /\ MealPlansIdle /\ DatabaseUp

NextEvents ==
    \/ Tick
    \/ add_excluded_title
    \/ get_excluded_titles
    \/ get_events

SpecEvents == InitEvents /\ [][NextEvents]_vars

(***************************************************************************)
(* C16.  No /get-events response, fresh or served from calendar_cache,     *)
(* contains an event whose title should_exclude_event excludes at the time *)
(* of the response.                                                        *)
(***************************************************************************)
NoExcludedIn(body, lists) ==
    \A i \in DOMAIN body : ~should_exclude_event(body[i], lists)

Answered(source) ==
    response' # response /\ response'.status = 200 /\ response'.source = source

C16_NoExcludedEventInResponse ==
    [][ (Answered("fresh") \/ Answered("cache")) =>
            NoExcludedIn(response'.body, excluded') ]_vars

\* C16 as amended: a fresh response contains no event excluded at the time
\* of the response; a response served from calendar_cache is a list that was
\* cached less than 60 seconds before, and every list contains, when it is
\* cached, no event excluded at that time.
C16_NoEventExcludedWhenFetched ==
    [][ /\ Answered("fresh") => NoExcludedIn(response'.body, excluded')
        /\ Answered("cache") =>
               /\ response'.key \in DOMAIN calendar_cache
               /\ response'.body = calendar_cache[response'.key].data
               /\ now < calendar_cache[response'.key].expiry
        /\ \A k \in DOMAIN calendar_cache' :
               (k \notin DOMAIN calendar_cache \/ calendar_cache'[k] # calendar_cache[k]) =>
                   /\ NoExcludedIn(calendar_cache'[k].data, excluded')
                   /\ calendar_cache'[k].expiry = now + 60 ]_vars

\* after Block was added as a partial title, a fresh response holds events
\* but not Blocks
C16_Witness ==
    /\ response.status = 200
    /\ response.source = "fresh"
    /\ InList(TitleBlock, excluded.partial)
    /\ InList(TitleSync, response.body)
    /\ ~InList(TitleBlocks, response.body)


(* ----- the horizon collection ----- *)
MaxHorizons == 2

\* an Optional[str] field that is None
Absent == <<"None">>

RECURSIVE LStrip(_)
LStrip(str) ==
    IF str # <<>> /\ Head(str) = " " THEN LStrip(Tail(str)) ELSE str

RECURSIVE RStrip(_)
RStrip(str) ==
    IF str # <<>> /\ str[Len(str)] = " "
    THEN RStrip(SubSeq(str, 1, Len(str) - 1))
    ELSE str

\* str.strip()
Strip(str) == RStrip(LStrip(str))

\* the fields of a horizon document that the queries look at
HorizonFields == {"title", "details", "type", "horizon_date"}

\* a document matches a query (a function from some fields to values)
MatchesQuery(doc, query) == \A f \in DOMAIN query : doc[f] = query[f]

\* collection.find(query)
Find(collection, query) == { doc \in collection : MatchesQuery(doc, query) }

\* HorizonRepository.create_horizon: the collection with the new document
create_horizon(collection, id, horizon_data) ==
    collection \cup {[id |-> id, title |-> horizon_data.title,
                      details |-> horizon_data.details, type |-> horizon_data.type,
                      horizon_date |-> horizon_data.horizon_date]}

\* HorizonRepository.get_all_horizons
get_all_horizons(collection, horizon_date) ==
    IF horizon_date \in {NoDate, <<>>}
    THEN collection
    ELSE Find(collection, [f \in {"horizon_date"} |-> horizon_date])

\* HorizonRepository.delete_horizon_by_title: the documents it deletes
DeletedByTitle(collection, title) ==
    IF title = <<>> \/ Strip(title) = <<>>
    THEN {}
    ELSE Find(collection, [f \in {"title"} |-> Strip(title)])

\* HorizonRepository.delete_horizon: the documents it deletes
DeletedById(collection, horizon_id) == { doc \in collection : doc.id = horizon_id }

\* the query edit_horizon_by_criteria finds the documents to update with
ExistingQuery(edit_data) ==
    [f \in { g \in HorizonFields : edit_data.existing[g] # Absent } |->
        IF f = "horizon_date" THEN edit_data.existing[f] ELSE Strip(edit_data.existing[f])]

\* the fields it sets
UpdateData(edit_data) ==
    [f \in { g \in HorizonFields : edit_data.new[g] # Absent } |->
        IF f = "horizon_date" THEN edit_data.new[f] ELSE Strip(edit_data.new[f])]

\* variant: the updated documents are looked up by all their criteria
UpdatedQuery_allFields(edit_data) ==
    [f \in DOMAIN ExistingQuery(edit_data) \cup DOMAIN UpdateData(edit_data) |->
        IF f \in DOMAIN UpdateData(edit_data)
        THEN UpdateData(edit_data)[f] ELSE ExistingQuery(edit_data)[f]]

\* the query it reads the updated documents back with
UpdatedQuery(edit_data) ==
    LET has_title   == edit_data.new.title # Absent \/ edit_data.existing.title # Absent
        has_details == \/ edit_data.new.details # Absent
                       \/ (edit_data.existing.details # Absent /\ edit_data.new.title = Absent)
    IN  [f \in (IF has_title THEN {"title"} ELSE {})
               \cup (IF has_details THEN {"details"} ELSE {}) |->
            IF f = "title"
            THEN (IF edit_data.new.title # Absent
                  THEN Strip(edit_data.new.title) ELSE Strip(edit_data.existing.title))
            ELSE (IF edit_data.new.details # Absent
                  THEN Strip(edit_data.new.details) ELSE Strip(edit_data.existing.details))]

\* update_many(query, {"$set": update_data})
UpdateMany(collection, query, update_data) ==
    { IF MatchesQuery(doc, query)
      THEN [f \in DOMAIN doc |-> IF f \in DOMAIN update_data THEN update_data[f] ELSE doc[f]]
      ELSE doc : doc \in collection }

\* what the database does with the calls of one request
DbOutcomes == {"ok", "first_call_fails", "second_call_fails"}

\* HorizonRepository.edit_horizon_by_criteria: the error it raises, the
\* collection it leaves and the documents it returns
edit_horizon_by_criteria(collection, edit_data, db) ==
    LET query       == ExistingQuery(edit_data)
        update_data == UpdateData(edit_data)
        updated     == UpdateMany(collection, query, update_data)
    IN  IF DOMAIN query = {} \/ DOMAIN update_data = {}
        THEN [raised |-> "ValueError", collection |-> collection, returned |-> {}]
        ELSE IF db = "first_call_fails"
        THEN [raised |-> "RuntimeError", collection |-> collection, returned |-> {}]
        ELSE IF Find(collection, query) = {}
        THEN [raised |-> "", collection |-> updated, returned |-> {}]
        ELSE IF db = "second_call_fails"
        THEN [raised |-> "RuntimeError", collection |-> updated, returned |-> {}]
        ELSE [raised |-> "", collection |-> updated,
              returned |-> Find(updated, UpdatedQuery(edit_data))]

\* the HTTP response of a horizon or todo endpoint
Answer(status, source, key, body) ==
    [status |-> status, source |-> source, key |-> key, at |-> now, body |-> body]

(* ----- the horizon endpoints with the caching patch ----- *)
HorizonTitles == {<<"a">>, <<"b">>}

\* the query parameters of GET /get-horizon
HorizonQueryDates == {NoDate}

\* the bodies of PUT /edit-horizon sent while the cache is in use
NoFields == [f \in HorizonFields |-> Absent]

RenameRequests ==
    { [existing |-> [NoFields EXCEPT !.title = t], new |-> [NoFields EXCEPT !.title = u]] :
          t \in HorizonTitles, u \in HorizonTitles }
    \cup { [existing |-> NoFields, new |-> NoFields] }

\* the line invalidate_horizon_cache() after the repository call is reached
\* when the call has not raised
InvalidateAfter(raised) == raised = ""

get_horizons ==
    /\ \E horizon_date \in HorizonQueryDates, skip_cache \in BOOLEAN,
          db \in {"ok", "first_call_fails"} :
          LET cache_key == get_horizon_cache_key(horizon_date)
              found     == CachedHorizons(horizon_cache, cache_key, now)
          IN  IF ~skip_cache /\ found.returned # None
              THEN /\ response' = Answer(200, "cache", cache_key, found.returned.value)
                   /\ horizon_cache' = found.cache
              ELSE LET cache == IF skip_cache THEN horizon_cache ELSE found.cache
                   IN  IF db = "first_call_fails"
                       THEN /\ response' = Answer(500, "error", cache_key, {})
                            /\ horizon_cache' = cache
                       ELSE LET fetched == get_all_horizons(horizons, horizon_date)
                            IN  /\ horizon_cache' =
                                       SetKey(cache, cache_key,
                                              [data |-> fetched,
                                               expiry |-> now + HORIZON_CACHE_TTL_SECONDS])
                                /\ response' = Answer(200, "database", cache_key, fetched)
    /\ UNCHANGED <<now, horizons, horizon_seq, notHorizons>>

add_horizon_patched ==
    /\ horizon_seq < MaxHorizons
    /\ \E title \in HorizonTitles, db \in {"ok", "first_call_fails"} :
          LET horizon_data == [title |-> title, details |-> <<>>,
                               type |-> <<"n", "o", "n", "e">>, horizon_date |-> NoDate]
          IN  IF db = "first_call_fails"
              THEN /\ response' = Answer(500, "error", title, {})
                   /\ UNCHANGED <<horizons, horizon_seq, horizon_cache>>
              ELSE /\ horizons' = create_horizon(horizons, horizon_seq + 1, horizon_data)
                   /\ horizon_seq' = horizon_seq + 1
                   /\ horizon_cache' = IF InvalidateAfter("") THEN <<>> ELSE horizon_cache
                   /\ response' = Answer(200, "add", title, horizons' \ horizons)
    /\ UNCHANGED <<now, notHorizons>>

delete_horizon_by_title_patched ==
    /\ \E title \in HorizonTitles, db \in {"ok", "first_call_fails"} :
          LET deleted == DeletedByTitle(horizons, title)
          IN  IF db = "first_call_fails"
              THEN /\ response' = Answer(500, "error", title, {})
                   /\ UNCHANGED <<horizons, horizon_cache>>
              ELSE /\ horizons' = horizons \ deleted
                   /\ horizon_cache' = IF InvalidateAfter("") THEN <<>> ELSE horizon_cache
                   /\ response' = Answer(IF deleted = {} THEN 404 ELSE 200,
                                         "delete", title, deleted)
    /\ UNCHANGED <<now, horizon_seq, notHorizons>>

delete_horizon_patched ==
    /\ \E horizon_id \in 1..MaxHorizons, db \in {"ok", "first_call_fails"} :
          LET deleted == DeletedById(horizons, horizon_id)
          IN  IF db = "first_call_fails"
              THEN /\ response' = Answer(500, "error", <<>>, {})
                   /\ UNCHANGED <<horizons, horizon_cache>>
              ELSE /\ horizons' = horizons \ deleted
                   /\ horizon_cache' = IF InvalidateAfter("") THEN <<>> ELSE horizon_cache
                   /\ response' = Answer(IF deleted = {} THEN 404 ELSE 200,
                                         "delete", <<>>, deleted)
    /\ UNCHANGED <<now, horizon_seq, notHorizons>>

edit_horizon_patched ==
    /\ \E edit_data \in RenameRequests, db \in DbOutcomes :
          LET done == edit_horizon_by_criteria(horizons, edit_data, db)
          IN  /\ horizons' = done.collection
              /\ horizon_cache' = IF InvalidateAfter(done.raised) THEN <<>> ELSE horizon_cache
              /\ response' =
                     IF done.raised = "ValueError" THEN Answer(400, "error", <<>>, {})
                     ELSE IF done.raised = "RuntimeError" THEN Answer(500, "error", <<>>, {})
                     ELSE IF done.returned = {} THEN Answer(404, "edit", <<>>, {})
                     ELSE Answer(200, "edit", <<>>, done.returned)
    /\ UNCHANGED <<now, horizon_seq, notHorizons>>

NoHorizonResponse == [status |-> 0, source |-> "", key |-> <<>>, at |-> 0, body |-> {}]

InitHorizons ==
    /\ CachesIdle
    /\ response = NoHorizonResponse
    /\ calendar_service = "service"
    /\ excluded = ExcludedAtImport
    /\ HorizonsIdle
    /\ FinderIdle /\ ConcIdle /\ TodosIdle /\ MealPlansIdle /\ DatabaseUp

NextHorizons ==
    \/ Tick
    \/ get_horizons
    \/ add_horizon_patched
    \/ delete_horizon_by_title_patched
    \/ delete_horizon_patched
    \/ edit_horizon_patched

SpecHorizons == InitHorizons /\ [][NextHorizons]_vars

(***************************************************************************)
(* C17.  A /get-horizon response served from the cache is the list the     *)
(* collection holds at the time of the response: no response comes from an *)
(* entry that was read before a change of the collection.                  *)
(***************************************************************************)
C17_NoStaleHorizonsFromCache ==
    [][ (response' # response /\ response'.status = 200 /\ response'.source = "cache") =>
            \E horizon_date \in HorizonQueryDates :
                /\ get_horizon_cache_key(horizon_date) = response'.key
                /\ response'.body = get_all_horizons(horizons', horizon_date) ]_vars


(* ----- PUT /edit-horizon ----- *)
\* every combination of existing_* and new_* fields, given or not
ExistingValues ==
    [title |-> <<"a", " ">>, details |-> <<"d">>, type |-> <<"t">>,
     horizon_date |-> <<"D", "1">>]

NewValues ==
    [title |-> <<"b">>, details |-> <<"e">>, type |-> <<"u">>,
     horizon_date |-> <<"D", "2">>]

EditRequests ==
    { [existing |-> [f \in HorizonFields |-> IF f \in ex THEN ExistingValues[f] ELSE Absent],
       new      |-> [f \in HorizonFields |-> IF f \in nw THEN NewValues[f] ELSE Absent]] :
          ex \in SUBSET HorizonFields, nw \in SUBSET HorizonFields }

\* the documents the collection holds before the request
StoredHorizons ==
    { [title |-> <<"a">>, details |-> <<"d">>, type |-> <<"t">>, horizon_date |-> <<"D", "1">>],
      [title |-> <<"b">>, details |-> <<"d">>, type |-> <<"u">>, horizon_date |-> <<"D", "1">>],
      [title |-> <<"a">>, details |-> <<"e">>, type |-> <<"t">>, horizon_date |-> <<"D", "2">>] }

\* the collection made of the documents docs[1], docs[2], ... in this order
CollectionOf(docs) ==
    { [id |-> i, title |-> docs[i].title, details |-> docs[i].details,
       type |-> docs[i].type, horizon_date |-> docs[i].horizon_date] : i \in DOMAIN docs }

\* the request that has arrived and is not answered yet
Pending(edit_data) ==
    [status |-> 0, source |-> "request", key |-> edit_data, at |-> 0, body |-> {}]

edit_horizon ==
    /\ response.source = "request"
    /\ \E db \in DbOutcomes :
          LET edit_data == response.key
              done      == edit_horizon_by_criteria(horizons, edit_data, db)
          IN  /\ horizons' = done.collection
              /\ response' =
                     IF done.raised = "ValueError" THEN Answer(400, "error", edit_data, {})
                     ELSE IF done.raised = "RuntimeError" THEN Answer(500, "error", edit_data, {})
                     ELSE IF done.returned = {} THEN Answer(404, "edit", edit_data, {})
                     ELSE Answer(200, "edit", edit_data, done.returned)
    /\ UNCHANGED <<horizon_seq, notEdit>>

\* one request, with any of the bodies, to any of the collections
InitEdit ==
    /\ \E docs \in SeqsUpTo(StoredHorizons, MaxHorizons) :
          /\ horizons = CollectionOf(docs)
          /\ horizon_seq = Len(docs)
    /\ \E edit_data \in EditRequests : response = Pending(edit_data)
    /\ calendar_service = "service"
    /\ excluded = ExcludedAtImport
    /\ FinderIdle /\ ConcIdle /\ CachesIdle /\ TodosIdle /\ MealPlansIdle /\ DatabaseUp

NextEdit == edit_horizon

SpecEdit == InitEdit /\ [][NextEdit]_vars

(***************************************************************************)
(* C18.  PUT /edit-horizon returns exactly the items that matched the      *)
(* existing_* criteria before the update: it answers 200 with these items  *)
(* (as they are after the update) when there are some, and it reports that *)
(* nothing was found only when there are none.                             *)
(***************************************************************************)
MatchedBefore(edit_data) == Find(horizons, ExistingQuery(edit_data))

Ids(docs) == { doc.id : doc \in docs }

C18_EditReturnsExactlyUpdated ==
    [][ (response' # response /\ response'.source = "edit") =>
            LET matched == MatchedBefore(response'.key)
            IN  /\ response'.status = 200 =>
                       /\ Ids(response'.body) = Ids(matched)
                       /\ response'.body \subseteq horizons'
                /\ response'.status = 404 => matched = {} ]_vars


(* ----- the todo endpoints ----- *)
MaxTodos == 2

\* the titles POST /add-todos accepts (one character at least)
TodoTitles == {<<"a">>, <<" ", "a">>, <<" ">>}

\* UrgencyLevel and PriorityLevel
Levels == {"high", "low"}

\* TodosRepository.create_todo: the collection with the new document
create_todo(collection, id, todo_data) ==
    collection \cup {[id |-> id, title |-> todo_data.title,
                      urgency |-> todo_data.urgency, priority |-> todo_data.priority]}

\* the parameters of TodosRepository.get_all_todos(self)
GetAllTodosParameters == {"self"}

\* the keyword arguments get_todos calls it with
GetAllTodosKeywords == {"urgency", "priority"}

\* a call with keyword arguments the function does not have raises TypeError
CallBinds(parameters, keywords) == keywords \subseteq parameters

\* TodosRepository.delete_todo_by_title: the documents it deletes
DeletedTodosByTitle(collection, title) ==
    IF title = <<>> \/ Strip(title) = <<>>
    THEN {}
    ELSE { doc \in collection : doc.title = Strip(title) }

\* the body of a todo response: a list of todos or a deleted_count
TodoBody(items, deleted_count) == [items |-> items, deleted_count |-> deleted_count]

add_todo ==
    /\ todo_seq < MaxTodos
    /\ \E title \in TodoTitles, urgency \in Levels, priority \in Levels, db \in DbOutcomes :
          LET todo_data == [title |-> title, urgency |-> urgency, priority |-> priority]
              key       == [title |-> title, urgency |-> urgency, priority |-> priority]
              created   == create_todo(todos, todo_seq + 1, todo_data)
          IN  IF db = "first_call_fails"
              THEN /\ response' = Answer(500, "error", key, TodoBody({}, 0))
                   /\ UNCHANGED <<todos, todo_seq>>
              ELSE /\ todos' = created
                   /\ todo_seq' = todo_seq + 1
                   /\ response' =
                          IF db = "second_call_fails"
                          THEN Answer(500, "error", key, TodoBody({}, 0))
                          ELSE Answer(200, "add-todos", key, TodoBody(created \ todos, 0))
    /\ UNCHANGED notTodos

get_todos ==
    /\ \E urgency \in Levels \cup {"None"}, priority \in Levels \cup {"None"} :
          LET key == [title |-> <<>>, urgency |-> urgency, priority |-> priority]
          IN  response' =
                  IF CallBinds(GetAllTodosParameters, GetAllTodosKeywords)
                  THEN Answer(200, "get-todos", key, TodoBody(todos, 0))
                  ELSE Answer(500, "error", key, TodoBody({}, 0))
    /\ UNCHANGED <<todos, todo_seq, notTodos>>

delete_todo_by_title ==
    /\ \E title \in TodoTitles, db \in {"ok", "first_call_fails"} :
          LET key     == [title |-> title, urgency |-> "None", priority |-> "None"]
              deleted == DeletedTodosByTitle(todos, title)
          IN  IF db = "first_call_fails" /\ Strip(title) # <<>>
              THEN /\ response' = Answer(500, "error", key, TodoBody({}, 0))
                   /\ todos' = todos
              ELSE /\ todos' = todos \ deleted
                   /\ response' =
                          IF deleted = {}
                          THEN Answer(404, "delete-todo-by-title", key, TodoBody({}, 0))
                          ELSE Answer(200, "delete-todo-by-title", key,
                                      TodoBody({}, Cardinality(deleted)))
    /\ UNCHANGED <<todo_seq, notTodos>>

NoTodoResponse ==
    [status |-> 0, source |-> "", at |-> 0, body |-> TodoBody({}, 0),
     key |-> [title |-> <<>>, urgency |-> "None", priority |-> "None"]]

InitTodos ==
    /\ TodosIdle /\ MealPlansIdle /\ DatabaseUp
    /\ response = NoTodoResponse
    /\ calendar_service = "service"
    /\ excluded = ExcludedAtImport
    /\ FinderIdle /\ ConcIdle /\ CachesIdle /\ HorizonsIdle

NextTodos ==
    \/ add_todo
    \/ get_todos
    \/ delete_todo_by_title

SpecTodos == InitTodos /\ [][NextTodos]_vars

(***************************************************************************)
(* C19.  GET /get-todos answers with the stored todos, restricted to those *)
(* of the urgency and of the priority asked for when one is given.         *)
(***************************************************************************)
C19_GetTodosReturnsStoredTodos ==
    [][ (response' # response /\ response'.key.title = <<>>) =>
            /\ response'.status = 200
            /\ response'.body.items =
                   { doc \in todos :
                         /\ response'.key.urgency \in {"None", doc.urgency}
                         /\ response'.key.priority \in {"None", doc.priority} } ]_vars

(***************************************************************************)
(* C20.  DELETE /delete-todo-by-title?title=T removes the stored todos     *)
(* whose title is T and no other, and reports their number; when no stored *)
(* todo has the title T it answers 404 and changes nothing.                *)
(***************************************************************************)
C20_DeleteByTitleRemovesExactlyTitled ==
    [][ (response' # response /\ response'.source = "delete-todo-by-title") =>
            LET titled == { doc \in todos : doc.title = response'.key.title }
            IN  IF titled = {}
                THEN response'.status = 404 /\ todos' = todos
                ELSE /\ response'.status = 200
                     /\ todos' = todos \ titled
                     /\ response'.body.deleted_count = Cardinality(titled) ]_vars


(* ----- dates in YYYY-MM-DD format ----- *)
Digits == <<"0", "1", "2", "3", "4", "5", "6", "7", "8", "9">>

IsDigit(char) == \E i \in 1..Len(Digits) : Digits[i] = char

DigitValue(char) == (CHOOSE i \in 1..Len(Digits) : Digits[i] = char) - 1

\* int() of a string of digits
RECURSIVE Number(_)
Number(str) ==
    IF str = <<>> THEN 0
    ELSE Number(SubSeq(str, 1, Len(str) - 1)) * 10 + DigitValue(str[Len(str)])

\* re.match(r'^\d{4}-\d{2}-\d{2}$', v): the $ also matches before a newline
\* that ends the string
MatchesDatePattern(v) ==
    /\ \/ Len(v) = 10
       \/ Len(v) = 11 /\ v[11] = "\n"
    /\ \A i \in {1, 2, 3, 4, 6, 7, 9, 10} : IsDigit(v[i])
    /\ v[5] = "-" /\ v[8] = "-"

\* datetime.strptime(v, '%Y-%m-%d') of a string that matches the pattern
\* raises ValueError when data remains or when there is no such day
StrptimeRaises(v) ==
    LET year == Number(SubSeq(v, 1, 4))
        mon  == Number(SubSeq(v, 6, 7))
        day  == Number(SubSeq(v, 9, 10))
    IN  \/ Len(v) # 10
        \/ year < 1
        \/ mon < 1 \/ mon > 12
        \/ day < 1 \/ day > DaysInMonth(mon, year)

\* the days of the year before the month
RECURSIVE DaysBeforeMonth(_, _)
DaysBeforeMonth(mon, year) ==
    IF mon = 1 THEN 0
    ELSE DaysBeforeMonth(mon - 1, year) + DaysInMonth(mon - 1, year)

\* date.toordinal(): day 1 is 0001-01-01
Ordinal(year, mon, day) ==
    LET before == year - 1
    IN  before * 365 + before \div 4 - before \div 100 + before \div 400
            + DaysBeforeMonth(mon, year) + day

\* date.weekday() of a valid date string: 0 is Monday
Weekday(v) ==
    (Ordinal(Number(SubSeq(v, 1, 4)), Number(SubSeq(v, 6, 7)),
             Number(SubSeq(v, 9, 10))) + 6) % 7

\* HorizonCreate.validate_horizon_date accepts the value
validate_horizon_date(v) ==
    \/ v = Absent
    \/ MatchesDatePattern(v) /\ ~StrptimeRaises(v)

\* UpdateMealSlotRequest.validate_week_start_date accepts the value
validate_week_start_date(v) ==
    /\ MatchesDatePattern(v)
    /\ ~StrptimeRaises(v)
    /\ Weekday(v) = 0


(* ----- the weekly meal plan endpoints ----- *)
\* the clock of the meal plan requests advances up to MaxMealNow
MaxMealNow == 60

\* two Mondays and a Tuesday
FirstMonday == <<"2", "0", "2", "6", "-", "1", "1", "-", "0", "2">>

SecondMonday == <<"2", "0", "2", "6", "-", "1", "1", "-", "0", "9">>

Tuesday == <<"2", "0", "2", "6", "-", "1", "1", "-", "0", "3">>

\* the weeks GET /get-weekly-meal-plan is asked for
WeekStartDates == {FirstMonday, SecondMonday, Tuesday}

\* the weeks PATCH /update-meal-slot is asked for
SlotWeekStartDates == {FirstMonday, Tuesday}

\* DayField
DayFields == {"sunday_lunch", "tuesday_lunch", "monday_dinner", "wednesday_dinner"}

\* a meal id, or None to clear the slot
MealIds == {"meal", "None"}

\* a plan document with no slot filled
EmptyPlan(week_start_date, created_at) ==
    [week_start_date |-> week_start_date,
     sunday_lunch |-> "None", tuesday_lunch |-> "None",
     monday_dinner |-> "None", wednesday_dinner |-> "None",
     created_at |-> created_at, updated_at |-> created_at]

\* collection.find_one({"week_start_date": week_start_date}): the documents
\* it can return
FindPlans(collection, week_start_date) ==
    { doc \in collection : doc.week_start_date = week_start_date }

\* variant: the update document of upsert_weekly_meal_plan, which sets every
\* slot
update_doc_wholePlan(update_data, utcnow) ==
    [f \in DayFields \cup {"updated_at"} |->
        IF f = "updated_at" THEN utcnow
        ELSE IF f = update_data.day_field THEN update_data.meal_id ELSE "None"]

\* WeeklyMealPlansRepository.update_meal_slot: the fields it sets
update_doc(update_data, utcnow) ==
    [f \in {update_data.day_field, "updated_at"} |->
        IF f = "updated_at" THEN utcnow ELSE update_data.meal_id]

\* update_one(query, {"$set": fields}) applied to the document it matches
SetFields(doc, fields) ==
    [f \in DOMAIN doc |-> IF f \in DOMAIN fields THEN fields[f] ELSE doc[f]]

\* WeeklyMealPlansRepository.update_meal_slot: the error it raises, the
\* collection it leaves and the plan it returns
update_meal_slot_by_repo(collection, update_data, utcnow, db) ==
    LET existing == FindPlans(collection, update_data.week_start_date)
        fields   == update_doc(update_data, utcnow)
        written  ==
            IF existing # {}
            THEN LET doc == CHOOSE d \in existing : TRUE
                 IN  (collection \ {doc}) \cup {SetFields(doc, fields)}
            ELSE collection \cup
                     {SetFields(EmptyPlan(update_data.week_start_date, utcnow), fields)}
    IN  IF db = "first_call_fails"
        THEN [raised |-> "RuntimeError", collection |-> collection, returned |-> {}]
        ELSE IF db = "second_call_fails"
        THEN [raised |-> "RuntimeError", collection |-> written, returned |-> {}]
        ELSE [raised |-> "", collection |-> written,
              returned |-> FindPlans(written, update_data.week_start_date)]

\* the request a meal plan response answers
MealKey(week_start_date, day_field, meal_id) ==
    [week_start_date |-> week_start_date, day_field |-> day_field, meal_id |-> meal_id]

MealClock ==
    /\ \E d \in TickSeconds :
          /\ now + d <= MaxMealNow
          /\ now' = now + d
    /\ UNCHANGED <<calendar_cache, horizon_cache, lookup, response, calendar_service,
                   excluded, weekly_meal_plans, finderVars, concVars, horizonVars,
                   todoVars, dbVars>>

\* GET /get-weekly-meal-plan
get_weekly_meal_plan ==
    /\ \E week_start_date \in WeekStartDates, db \in {"ok", "first_call_fails"} :
          LET key  == MealKey(week_start_date, "None", "None")
              plan == FindPlans(weekly_meal_plans, week_start_date)
          IN  response' =
                  IF db = "first_call_fails"
                  THEN Answer(500, "get-weekly-meal-plan", key, {})
                  ELSE IF plan = {}
                  THEN Answer(200, "get-weekly-meal-plan", key,
                              {EmptyPlan(week_start_date, now)})
                  ELSE Answer(200, "get-weekly-meal-plan", key, plan)
    /\ UNCHANGED <<weekly_meal_plans, now, calendar_cache, horizon_cache, lookup,
                   calendar_service, excluded, finderVars, concVars, horizonVars,
                   todoVars, dbVars>>

\* PATCH /update-meal-slot
update_meal_slot ==
    /\ \E week_start_date \in SlotWeekStartDates, day_field \in DayFields,
          meal_id \in MealIds, db \in DbOutcomes :
          LET key         == MealKey(week_start_date, day_field, meal_id)
              update_data == key
              outcome     == update_meal_slot_by_repo(weekly_meal_plans, update_data, now, db)
          IN  IF ~validate_week_start_date(week_start_date)
              THEN /\ response' = Answer(422, "update-meal-slot", key, {})
                   /\ UNCHANGED weekly_meal_plans
              ELSE /\ weekly_meal_plans' = outcome.collection
                   /\ response' =
                          IF outcome.raised # ""
                          THEN Answer(500, "update-meal-slot", key, {})
                          ELSE Answer(200, "update-meal-slot", key, outcome.returned)
    /\ UNCHANGED <<now, calendar_cache, horizon_cache, lookup, calendar_service,
                   excluded, finderVars, concVars, horizonVars, todoVars, dbVars>>

NoMealResponse ==
    [status |-> 0, source |-> "", at |-> 0, body |-> {},
     key |-> [week_start_date |-> <<>>, day_field |-> "None", meal_id |-> "None"]]

\* the plans stored before the first request: none, or one of another week
\* with a slot filled
StoredPlans ==
    {{}, {[EmptyPlan(SecondMonday, 0) EXCEPT !.sunday_lunch = "meal"]}}

InitMeals ==
    /\ weekly_meal_plans \in StoredPlans
    /\ response = NoMealResponse
    /\ calendar_service = "service"
    /\ excluded = ExcludedAtImport
    /\ FinderIdle /\ ConcIdle /\ CachesIdle /\ HorizonsIdle /\ TodosIdle /\ DatabaseUp

NextMeals ==
    \/ MealClock
    \/ get_weekly_meal_plan
    \/ update_meal_slot

SpecMeals == InitMeals /\ [][NextMeals]_vars

\* the step is the answer to a request of the endpoint
MealAnswered(source) == response' # response /\ response'.source = source

(***************************************************************************)
(* C21.  GET /get-weekly-meal-plan answers 200; for a week that has no     *)
(* stored plan it stores a plan with all four slots null for that week and *)
(* returns it; for a week that has a plan it returns the stored plan and   *)
(* changes nothing.  (A request the database fails is left aside.)         *)
(***************************************************************************)
C21_GetCreatesEmptyPlanOrReturnsStored ==
    [][ (MealAnswered("get-weekly-meal-plan") /\ response'.status # 500) =>
            LET week   == response'.key.week_start_date
                stored == FindPlans(weekly_meal_plans, week)
            IN  /\ response'.status = 200
                /\ IF stored = {}
                   THEN /\ \E plan \in response'.body :
                              /\ response'.body = {plan}
                              /\ plan.week_start_date = week
                              /\ \A f \in DayFields : plan[f] = "None"
                        /\ weekly_meal_plans' = weekly_meal_plans \cup response'.body
                   ELSE /\ response'.body = stored
                        /\ weekly_meal_plans' = weekly_meal_plans ]_vars

(***************************************************************************)
(* C22.  PATCH /update-meal-slot changes only the named slot and           *)
(* updated_at of the week's plan: the other three slots, week_start_date   *)
(* and created_at keep their values and the plans of other weeks are       *)
(* unchanged; when the week has no plan it creates one in which only the   *)
(* named slot is filled.  A 200 answer carries the plan as it is stored    *)
(* after the request, with the named slot set as asked.                    *)
(***************************************************************************)
C22_UpdateSlotChangesOnlyNamedSlot ==
    [][ MealAnswered("update-meal-slot") =>
            LET week   == response'.key.week_start_date
                slot   == response'.key.day_field
                before == FindPlans(weekly_meal_plans, week)
                after  == FindPlans(weekly_meal_plans', week)
                kept   == (DayFields \ {slot}) \cup {"week_start_date", "created_at"}
            IN  /\ weekly_meal_plans' \ after = weekly_meal_plans \ before
                /\ \/ weekly_meal_plans' = weekly_meal_plans /\ response'.status # 200
                   \/ \E new \in after :
                         /\ after = {new}
                         /\ new[slot] = response'.key.meal_id
                         /\ new.updated_at = now
                         /\ IF before = {}
                            THEN /\ \A f \in DayFields \ {slot} : new[f] = "None"
                                 /\ new.created_at = now
                            ELSE \E old \in before :
                                    /\ before = {old}
                                    /\ \A f \in kept : new[f] = old[f]
                         /\ response'.status = 200 => response'.body = after ]_vars

\* a slot of a plan that had another slot filled has been set: the answer
\* carries a plan with two filled slots, updated after it was created
C22_Witness ==
    /\ response.source = "update-meal-slot"
    /\ response.status = 200
    /\ \E plan \in response.body :
          /\ plan.updated_at > plan.created_at
          /\ plan[response.key.day_field] = "meal"
          /\ \E f \in DayFields \ {response.key.day_field} : plan[f] = "meal"
    /\ Cardinality(weekly_meal_plans) = 2


(***************************************************************************)
(* C23.  While find_free_blocks scans the remaining events of one date in  *)
(* ascending start order, the cursor never decreases: after each event it  *)
(* is the later of the previous cursor and the end of the event (for an    *)
(* event that ends before midnight), also when the event lies inside an    *)
(* earlier, longer event.                                                  *)
(***************************************************************************)
C23_CursorAdvancesToMax ==
    [][ (pc = "rest" /\ pc' = "rest" /\ ev_idx' = ev_idx + 1) =>
            LET event       == events_by_date[date_idx].date_events[ev_idx]
                end_minutes == Minutes(event.start) + event.duration
            IN  /\ Minutes(current_time') >= Minutes(current_time)
                /\ end_minutes < 24 * 60 =>
                       Minutes(current_time') =
                           IF end_minutes > Minutes(current_time)
                           THEN end_minutes ELSE Minutes(current_time) ]_vars


(* ----- the dates of horizon items ----- *)
\* a date that has the format but names no day, and a string that is no date
NoSuchDay == <<"2", "0", "2", "6", "-", "0", "2", "-", "3", "0">>

NotADate == <<"s", "o", "o", "n">>

\* the values a request gives horizon_date, existing_horizon_date or
\* new_horizon_date: null, a valid date and two strings that are no dates
RequestDates == {Absent, FirstMonday, NoSuchDay, NotADate}

\* the query-parameter values add_horizon takes for null
NullLike ==
    {<<"n", "u", "l", "l">>, <<"N", "o", "n", "e">>,
     <<"u", "n", "d", "e", "f", "i", "n", "e", "d">>, <<>>, Absent}

\* the query parameters of POST /add-horizon
QueryDates == RequestDates \cup {<<"n", "u", "l", "l">>}

\* add_horizon: the horizon_date it stores
StoredDate(body_date, query_date) ==
    IF query_date \in NullLike THEN Absent ELSE query_date

\* the bodies of PUT /edit-horizon that set a date on the items of a title
DateRequests ==
    { [existing |-> [NoFields EXCEPT !.title = t],
       new      |-> [NoFields EXCEPT !.horizon_date = d]] :
          t \in HorizonTitles, d \in RequestDates }

\* the request a date response answers
DateRequestKey(title, body_date, query_date) ==
    [title |-> title, body_date |-> body_date, query_date |-> query_date]

\* POST /add-horizon
add_horizon ==
    /\ horizon_seq < MaxHorizons
    /\ \E title \in HorizonTitles, body_date \in RequestDates, query_date \in QueryDates,
          db \in {"ok", "first_call_fails"} :
          LET key          == DateRequestKey(title, body_date, query_date)
              horizon_data == [title |-> title, details |-> <<>>,
                               type |-> <<"n", "o", "n", "e">>,
                               horizon_date |-> StoredDate(body_date, query_date)]
          IN  IF ~validate_horizon_date(body_date)
              THEN /\ response' = Answer(422, "add-horizon", key, {})
                   /\ UNCHANGED <<horizons, horizon_seq>>
              ELSE IF db = "first_call_fails"
              THEN /\ response' = Answer(500, "add-horizon", key, {})
                   /\ UNCHANGED <<horizons, horizon_seq>>
              ELSE /\ horizons' = create_horizon(horizons, horizon_seq + 1, horizon_data)
                   /\ horizon_seq' = horizon_seq + 1
                   /\ response' = Answer(200, "add-horizon", key, horizons' \ horizons)
    /\ UNCHANGED <<now, horizon_cache, notHorizons>>

\* PUT /edit-horizon with a new_horizon_date
edit_horizon_date ==
    /\ \E edit_data \in DateRequests, db \in DbOutcomes :
          LET key  == DateRequestKey(edit_data.existing.title, Absent, edit_data.new.horizon_date)
              done == edit_horizon_by_criteria(horizons, edit_data, db)
          IN  /\ horizons' = done.collection
              /\ response' =
                     IF done.raised = "ValueError" THEN Answer(400, "edit-horizon", key, {})
                     ELSE IF done.raised = "RuntimeError"
                     THEN Answer(500, "edit-horizon", key, {})
                     ELSE IF done.returned = {} THEN Answer(404, "edit-horizon", key, {})
                     ELSE Answer(200, "edit-horizon", key, done.returned)
    /\ UNCHANGED <<now, horizon_seq, horizon_cache, notHorizons>>

NoDateResponse ==
    [status |-> 0, source |-> "", at |-> 0, body |-> {},
     key |-> [title |-> <<>>, body_date |-> Absent, query_date |-> Absent]]

InitDates ==
    /\ HorizonsIdle
    /\ response = NoDateResponse
    /\ calendar_service = "service"
    /\ excluded = ExcludedAtImport
    /\ FinderIdle /\ ConcIdle /\ CachesIdle /\ TodosIdle /\ MealPlansIdle /\ DatabaseUp

NextDates ==
    \/ add_horizon
    \/ edit_horizon_date

SpecDates == InitDates /\ [][NextDates]_vars

(***************************************************************************)
(* C24.  Every stored horizon item has a horizon_date that is null or a    *)
(* valid date in YYYY-MM-DD format, after any sequence of /add-horizon and *)
(* /edit-horizon requests.                                                 *)
(***************************************************************************)
C24_StoredDatesValid ==
    \A doc \in horizons : validate_horizon_date(doc.horizon_date)


(* ----- DatabaseConfig and the collection property of the repositories ----- *)
MaxConnects == 2

\* what can happen in connect(): an environment variable is missing,
\* MongoClient(mongodb_url) raises, the ismaster command raises, or nothing
\* raises
ConnectOutcomes == {"missing_env", "client_raises", "ismaster_raises", "ok"}

\* DatabaseConfig.connect: the fields when the call ends
connect_fields(config, outcome, client) ==
    IF outcome \in {"missing_env", "client_raises"}
    THEN config
    ELSE [client |-> client, database |-> "db"]

\* the error DatabaseConfig.connect re-raises
connect_raises(outcome) ==
    IF outcome = "missing_env" THEN "ValueError"
    ELSE IF outcome = "ok" THEN "" ELSE "PyMongoError"

\* DatabaseConfig.get_collection: the error raised and the value returned
get_collection_of(config, collection_name) ==
    IF config.database = "None"
    THEN [raised |-> "RuntimeError", returned |-> "None"]
    ELSE [raised |-> "", returned |-> collection_name]

DbCall(fn, name, raised, returned) ==
    [fn |-> fn, name |-> name, raised |-> raised, returned |-> returned]

connect ==
    /\ Len(connect_log) < MaxConnects
    /\ \E outcome \in ConnectOutcomes :
          /\ db_config' = connect_fields(db_config, outcome, Len(connect_log) + 1)
          /\ connect_log' = Append(connect_log, outcome)
          /\ db_call' = DbCall("connect", "", connect_raises(outcome),
                               IF outcome = "ok" THEN "db" ELSE "None")
    /\ UNCHANGED <<repositories, finderVars, concVars, cacheVars, apiVars,
                   horizonVars, todoVars, mealVars>>

\* DatabaseConfig.disconnect closes the client and keeps both fields
disconnect ==
    /\ db_call' = DbCall("disconnect", "", "", "None")
    /\ UNCHANGED <<db_config, repositories, connect_log, finderVars, concVars,
                   cacheVars, apiVars, horizonVars, todoVars, mealVars>>

get_collection ==
    /\ \E collection_name \in Repositories :
          LET got == get_collection_of(db_config, collection_name)
          IN  db_call' = DbCall("get_collection", collection_name, got.raised, got.returned)
    /\ UNCHANGED <<db_config, repositories, connect_log, finderVars, concVars,
                   cacheVars, apiVars, horizonVars, todoVars, mealVars>>

\* DatabaseConfig.ensure_indexes: every error of the index creation is
\* caught
ensure_indexes ==
    /\ db_call' = DbCall("ensure_indexes", "",
                         IF db_config.database = "None" THEN "RuntimeError" ELSE "",
                         "None")
    /\ UNCHANGED <<db_config, repositories, connect_log, finderVars, concVars,
                   cacheVars, apiVars, horizonVars, todoVars, mealVars>>

\* the collection property of a repository
collection ==
    /\ \E r \in Repositories :
          IF repositories[r] # "None"
          THEN /\ db_call' = DbCall("collection", r, "", repositories[r])
               /\ UNCHANGED repositories
          ELSE IF db_config.database = "None"
          THEN /\ db_call' = DbCall("collection", r, "RuntimeError", "None")
               /\ UNCHANGED repositories
          ELSE LET got == get_collection_of(db_config, r)
               IN  /\ repositories' = [repositories EXCEPT ![r] = got.returned]
                   /\ db_call' = DbCall("collection", r, got.raised, got.returned)
    /\ UNCHANGED <<db_config, connect_log, finderVars, concVars, cacheVars,
                   apiVars, horizonVars, todoVars, mealVars>>

InitDatabase ==
    /\ db_config = NotConnected
    /\ repositories = [r \in Repositories |-> "None"]
    /\ connect_log = <<>>
    /\ db_call = NoDbCall
    /\ FinderIdle /\ ConcIdle /\ CachesIdle /\ ApiIdle /\ HorizonsIdle /\ TodosIdle
    /\ MealPlansIdle

NextDatabase ==
    \/ connect
    \/ disconnect
    \/ get_collection
    \/ ensure_indexes
    \/ collection

SpecDatabase == InitDatabase /\ [][NextDatabase]_vars

\* a connect() call has completed successfully
HasConnected == \E i \in 1..Len(connect_log) : connect_log[i] = "ok"

(***************************************************************************)
(* C25.  As long as no connect() call has completed successfully, also     *)
(* after a connect() call that raised while testing the connection, the    *)
(* last call of get_collection, of ensure_indexes or of a repository's     *)
(* collection property has raised RuntimeError.                            *)
(***************************************************************************)
C25_NotConnectedRaises ==
    (~HasConnected /\ db_call.fn \in {"get_collection", "ensure_indexes", "collection"})
        => db_call.raised = "RuntimeError"

====
